---- MODULE Spec2Model ----
(***************************************************************************)
(* testfuse (src/testfuse.c): a FUSE filesystem of deterministic           *)
(* pseudo-random files.  The model covers the content engine (crc,         *)
(* get_block), the read fulfiller (fop_read) and the registration of the   *)
(* file specifications in main.                                            *)
(*                                                                         *)
(* Fixed-width C integers are bit vectors: a function from the bit         *)
(* position (0 is the least significant bit) to 0 or 1.  uint32_t has 32   *)
(* positions; uint64_t, size_t and off_t have 64.                          *)
(***************************************************************************)
EXTENDS Integers, Sequences, FiniteSets, TLC

\* width of uint32_t and of uint64_t / size_t / off_t, in bits
U32Bits == 32
U64Bits == 64

(***************************************************************************)
(* Bit-vector arithmetic: what C's unsigned operators do.  Bit p of the    *)
(* vector a is a[p + 1].                                                   *)
(***************************************************************************)
Width(a) == Len(a)
Bit(a, p) == a[p + 1]

\* the w-bit vector whose bit p is F(p), built at once
Vec(w, F(_)) == SubSeq([k \in 1..w |-> F(k - 1)], 1, w)

\* the w-bit vector of a non-negative number n < 2^31
Bits(n, w) == Vec(w, LAMBDA p : IF p < 31 THEN (n \div (2 ^ p)) % 2 ELSE 0)

RECURSIVE ValFrom(_, _)
ValFrom(a, p) == IF p >= Width(a) THEN 0 ELSE Bit(a, p) + 2 * ValFrom(a, p + 1)
\* the number a bit vector stands for (used only where it is below 2^31)
Val(a) == ValFrom(a, 0)

IsZero(a) == \A p \in 0..(Width(a) - 1) : Bit(a, p) = 0

Xor(a, b) == Vec(Width(a), LAMBDA p : (Bit(a, p) + Bit(b, p)) % 2)
And(a, b) == Vec(Width(a), LAMBDA p : Bit(a, p) * Bit(b, p))
Or(a, b)  == Vec(Width(a), LAMBDA p : IF Bit(a, p) + Bit(b, p) > 0 THEN 1 ELSE 0)
Not(a)    == Vec(Width(a), LAMBDA p : 1 - Bit(a, p))
\* a << n and a >> n (logical) in the width of a
Shl(a, n) == Vec(Width(a), LAMBDA p : IF p >= n THEN Bit(a, p - n) ELSE 0)
Shr(a, n) == Vec(Width(a), LAMBDA p : IF p + n < Width(a) THEN Bit(a, p + n) ELSE 0)
\* conversion to a narrower (truncation) or wider (zero extension) unsigned type
Conv(a, w) == Vec(w, LAMBDA p : IF p < Width(a) THEN Bit(a, p) ELSE 0)

RECURSIVE Carries(_, _, _, _)
\* the carries of a + b + cin: element p + 1 is the carry into bit p
Carries(a, b, cs, p) ==
    IF p >= Width(a) THEN cs
    ELSE Carries(a, b, Append(cs, (Bit(a, p) + Bit(b, p) + cs[p + 1]) \div 2), p + 1)

\* a + b + cin modulo 2^Width(a), by ripple carry
AddC(a, b, cin) ==
    LET cs == Carries(a, b, <<cin>>, 0)
    IN  Vec(Width(a), LAMBDA p : (Bit(a, p) + Bit(b, p) + cs[p + 1]) % 2)
Add(a, b) == AddC(a, b, 0)
Sub(a, b) == AddC(a, Not(b), 1)
\* unsigned a < b
Lt(a, b) ==
    \E p \in 0..(Width(a) - 1) :
        /\ Bit(a, p) < Bit(b, p)
        /\ \A q \in (p + 1)..(Width(a) - 1) : Bit(a, q) = Bit(b, q)
Le(a, b) == ~Lt(b, a)

(***************************************************************************)
(* Build configuration and state.                                          *)
(***************************************************************************)
VARIABLES
    small_block_test,  \* whether SMALL_BLOCK_TEST is defined in this build
    byte_order,        \* "little" or "big": how the host stores a uint32_t
    main_pc,           \* where main is: "parsing", "mounted" or "exit_failure"
    testfile_list,     \* the registry, most recently added file first
    call,              \* per FUSE worker thread: its activation of fop_read
    block_buffer,      \* the storage of fop_read's block_buffer arrays
    engine             \* one activation of get_block and of the crc it calls

vars == <<small_block_test, byte_order, main_pc, testfile_list, call,
          block_buffer, engine>>

\* BLOCK_SIZE and BLOCK_SHIFT under #ifdef SMALL_BLOCK_TEST
SMALL_BLOCK_SIZE == 16
SMALL_BLOCK_SHIFT == 4

BLOCK_SIZE  == IF small_block_test THEN SMALL_BLOCK_SIZE ELSE 64 * 1024
BLOCK_SHIFT == IF small_block_test THEN SMALL_BLOCK_SHIFT ELSE 16
OFFSET_MASK == BLOCK_SIZE - 1

ByteOrders == {"little", "big"}

(***************************************************************************)
(* crc: the seed mixer.                                                    *)
(***************************************************************************)
polynomial == 79764919   \* 0x04C11DB7
msb_mask == Vec(U32Bits, LAMBDA p : IF p = U32Bits - 1 THEN 1 ELSE 0)   \* 0x80000000
global_seed == 123456789
sizeof_uint32_t == 4

divisor == Or(msb_mask, Shr(Bits(polynomial, U32Bits), 1))
divisor_next == Shl(And(Bits(polynomial, U32Bits), Bits(1, U32Bits)), 31)

\* the loop bound 3*sizeof(uint32_t)*8
crc_iterations == 3 * sizeof_uint32_t * 8

crc_refill_late(i) == i = 3 * sizeof_uint32_t * 8
crc_refill_final_third(i) == i = 2 * sizeof_uint32_t * 8
\* "refill next": the iteration at whose start input_next takes the block
crc_refill(i) == i = 1 * sizeof_uint32_t * 8

\* the locals of crc before the first iteration
crc_enter(g_seed, file_seed) ==
    [i |-> 0, input |-> g_seed, input_next |-> file_seed, refills |-> {}]

\* one iteration of the loop; refills records the iterations that took the
\* "refill next" branch
crc_step(st, block) ==
    LET refilled == IF crc_refill(st.i) THEN block ELSE st.input_next
        hit      == Bit(st.input, U32Bits - 1) = 1      \* input & msb_mask
        xored    == IF hit THEN Xor(st.input, divisor) ELSE st.input
        xored_n  == IF hit THEN Xor(refilled, divisor_next) ELSE refilled
        shifted  == IF Bit(xored_n, U32Bits - 1) = 1    \* input_next & msb_mask
                    THEN Or(Shl(xored, 1), Bits(1, U32Bits))
                    ELSE Shl(xored, 1)
    IN  [i          |-> st.i + 1,
         input      |-> shifted,
         input_next |-> Shl(xored_n, 1),
         refills    |-> IF crc_refill(st.i) THEN st.refills \cup {st.i}
                        ELSE st.refills]

RECURSIVE crc_loop(_, _)
crc_loop(st, block) ==
    IF st.i < crc_iterations THEN crc_loop(crc_step(st, block), block) ELSE st

crc(g_seed, file_seed, block) == crc_loop(crc_enter(g_seed, file_seed), block).input

(***************************************************************************)
(* get_block: the xorshift expansion of one block.                         *)
(***************************************************************************)
xorshift_y == 362436069
xorshift_z == 521288629
xorshift_w == 88675123

\* one iteration of get_block's loop on the generator state
xorshift(s) ==
    LET t == Xor(s.x, Shl(s.x, 11))
    IN  [x |-> s.y, y |-> s.z, z |-> s.w,
         w |-> Xor(Xor(s.w, Shr(s.w, 19)), Xor(t, Shr(t, 8)))]

\* the bytes that the store buf32[i] = w leaves in the char buffer
StoreWord(w, order) ==
    LET byte(j) == Val(Vec(8, LAMBDA b : Bit(w, 8 * j + b)))
    IN  IF order = "little" THEN <<byte(0), byte(1), byte(2), byte(3)>>
        ELSE <<byte(3), byte(2), byte(1), byte(0)>>

RECURSIVE get_block_fill(_, _, _)
get_block_fill(s, n, order) ==
    IF n = 0 THEN <<>>
    ELSE LET s2 == xorshift(s)
         IN  StoreWord(s2.w, order) \o get_block_fill(s2, n - 1, order)

\* the buffer get_block leaves, from the mixed seed x: bsize bytes
get_block_from(x, bsize, order) ==
    get_block_fill([x |-> x, y |-> Bits(xorshift_y, U32Bits),
                    z |-> Bits(xorshift_z, U32Bits),
                    w |-> Bits(xorshift_w, U32Bits)],
                   bsize \div sizeof_uint32_t, order)

\* get_block(block, buf, file_seed) in a build with bsize-byte blocks on a
\* host of the given byte order: the contents of buf afterwards.  Byte k of
\* the C buffer is element k + 1.
get_block(block, file_seed, bsize, order) ==
    get_block_from(crc(Bits(global_seed, U32Bits), file_seed, block), bsize, order)

\* get_block's result for the blocks 0 .. CacheBlocks-1 and the file seeds
\* 1 .. CacheSeeds of the SMALL_BLOCK_TEST build, computed once
CacheBlocks == 8
CacheSeeds == 2
BlockCache ==
    Vec(CacheBlocks, LAMBDA b :
        Vec(CacheSeeds, LAMBDA s :
            [little |-> get_block(Bits(b, U32Bits), Bits(s + 1, U32Bits),
                                  SMALL_BLOCK_SIZE, "little"),
             big    |-> get_block(Bits(b, U32Bits), Bits(s + 1, U32Bits),
                                  SMALL_BLOCK_SIZE, "big")]))

\* the block get_block leaves for src = [block, seed] in this build on this host
block_bytes(src) ==
    IF /\ small_block_test
       /\ IsZero(Shr(src.block, 8)) /\ Val(Conv(src.block, 8)) < CacheBlocks
       /\ IsZero(Shr(src.seed, 8)) /\ Val(Conv(src.seed, 8)) \in 1..CacheSeeds
    THEN BlockCache[Val(Conv(src.block, 8)) + 1][Val(Conv(src.seed, 8))][byte_order]
    ELSE get_block(src.block, src.seed, BLOCK_SIZE, byte_order)

(***************************************************************************)
(* main: registration of the file specifications.  Strings are sequences   *)
(* of characters.  A size token is what strtoll reads (value) and the      *)
(* character endptr is left at (suffix); a seed token is the value and     *)
(* whether characters follow it.                                           *)
(***************************************************************************)
\* size after the k/M/G multiplication, modulo 2^64
parse_size(value, suffix) ==
    LET size == Bits(value, U64Bits)
    IN  IF suffix \in {"k", "K"} THEN Shl(size, 10)
        ELSE IF suffix \in {"m", "M"} THEN Shl(size, 20)
        ELSE IF suffix \in {"g", "G"} THEN Shl(size, 30)
        ELSE size

\* whether main accepts the <name,size,seed> tuple
spec_accepted(size, seed, seed_trailing) ==
    /\ ~IsZero(size)
    /\ ~(IsZero(seed) \/ seed_trailing)

\* one pass of the do-while loop over the file specifications
main_file(name, size_value, size_suffix, seed_value, seed_trailing) ==
    LET size == parse_size(size_value, size_suffix)
        seed == Bits(seed_value, U32Bits)
    IN  /\ main_pc = "parsing"
        /\ IF spec_accepted(size, seed, seed_trailing)
           THEN /\ testfile_list' =
                      <<[name |-> name, size |-> size, seed |-> seed]>>
                      \o testfile_list
                /\ main_pc' = "parsing"
           ELSE /\ main_pc' = "exit_failure"
                /\ UNCHANGED testfile_list
        /\ UNCHANGED <<small_block_test, byte_order, call, block_buffer, engine>>

\* the loop has consumed every specification: fuse_main serves the mount
main_mount ==
    /\ main_pc = "parsing"
    /\ testfile_list # <<>>
    /\ main_pc' = "mounted"
    /\ UNCHANGED <<small_block_test, byte_order, testfile_list, call,
                   block_buffer, engine>>

(***************************************************************************)
(* fop_read.  The caller's buffer holds req_size bytes.  Its contents are  *)
(* kept as the list of the writes made to it: the write                    *)
(* [at, n, src, from, fast] put bytes from .. from+n-1 of the block src    *)
(* (a block index and a file seed, as get_block was called) at positions   *)
(* at .. at+n-1, either by get_block itself (fast) or by memcpy.           *)
(***************************************************************************)
Threads == {1, 2}
ENOENT == 2
NoFile == [name |-> <<>>, size |-> Bits(0, U64Bits), seed |-> Bits(0, U32Bits)]
NoBlock == [block |-> <<>>, seed |-> <<>>]

IdleCall ==
    [pc |-> "idle", path |-> <<>>, req_size |-> 0, req_offset |-> Bits(0, U64Bits),
     testfile |-> NoFile, size |-> Bits(0, U64Bits), abs_offset |-> Bits(0, U64Bits),
     orig_size |-> Bits(0, U64Bits), buf |-> 0, out |-> <<>>, ret |-> 0]

\* "skip the leading slash"
skip_slash(path) == IF path # <<>> /\ Head(path) = "/" THEN Tail(path) ELSE path

\* "lookup the file": the first entry of the list with that name, or NoFile
lookup(list, name) ==
    LET hits == {i \in 1..Len(list) : list[i].name = name}
    IN  IF hits = {} THEN NoFile
        ELSE list[CHOOSE i \in hits : \A j \in hits : i <= j]

clamp_size_only(size, abs_offset, file_size) ==
    IF Lt(file_size, size) THEN Sub(file_size, abs_offset) ELSE size
\* "limit to the size of the file"
clamp(size, abs_offset, file_size) ==
    IF Lt(file_size, Add(abs_offset, size)) THEN Sub(file_size, abs_offset)
    ELSE size

\* uint32_t block = abs_offset>>BLOCK_SHIFT
block_of(abs_offset) == Conv(Shr(abs_offset, BLOCK_SHIFT), U32Bits)
\* uint32_t offset = abs_offset & OFFSET_MASK
offset_of(abs_offset) == Val(And(abs_offset, Bits(OFFSET_MASK, U64Bits)))

fast_path_unsized(offset, size) == offset = 0
\* "ideal case -- aligned buffer of our block size"
fast_path(offset, size) == offset = 0 /\ Le(Bits(BLOCK_SIZE, U64Bits), size)

partial_bytes_short(size, offset) ==
    IF Lt(size, Bits(OFFSET_MASK - offset, U64Bits)) THEN Val(size)
    ELSE OFFSET_MASK - offset
\* the number of bytes a partial-block read copies
partial_bytes(size, offset) ==
    IF Lt(size, Bits(BLOCK_SIZE - offset, U64Bits)) THEN Val(size)
    ELSE BLOCK_SIZE - offset

memcpy_src_start(offset) == 0
\* where memcpy reads in block_buffer
memcpy_src(offset) == offset

block_buffer_shared(c) == 0
\* which block_buffer array a thread's call uses: the array is an automatic
\* variable, so every activation has its own
block_buffer_of(c) == c

\* return orig_size: size_t to int, the low 32 bits as two's complement
to_int(a) ==
    IF Bit(a, U32Bits - 1) = 1
    THEN (Val(Conv(a, U32Bits - 1)) - 1073741824) - 1073741824
    ELSE Val(Conv(a, U32Bits - 1))

\* the call's locals after the lookup and the clamp (entry to the loop), or
\* after return -ENOENT
read_enter(path, size, abs_offset) ==
    LET testfile == lookup(testfile_list, skip_slash(path))
        limited  == clamp(Bits(size, U64Bits), abs_offset, testfile.size)
    IN  IF testfile = NoFile
        THEN [IdleCall EXCEPT !.pc = "returned", !.path = path, !.req_size = size,
                              !.req_offset = abs_offset, !.ret = -ENOENT]
        ELSE [IdleCall EXCEPT !.pc = "loop", !.path = path, !.req_size = size,
                              !.req_offset = abs_offset, !.testfile = testfile,
                              !.size = limited, !.abs_offset = abs_offset,
                              !.orig_size = limited]

\* the locals after one pass through the fast branch of the loop
read_fast(cr) ==
    [cr EXCEPT
        !.out = Append(@, [at |-> cr.buf, n |-> BLOCK_SIZE, from |-> 0, fast |-> TRUE,
                           src |-> [block |-> block_of(cr.abs_offset),
                                    seed |-> cr.testfile.seed]]),
        !.buf = @ + BLOCK_SIZE,
        !.size = Sub(@, Bits(BLOCK_SIZE, U64Bits)),
        !.abs_offset = Add(@, Bits(BLOCK_SIZE, U64Bits))]

\* the locals after the memcpy of the partial branch, block_buffer holding
\* the block held
read_copy(cr, held) ==
    LET offset == offset_of(cr.abs_offset)
        bytes  == partial_bytes(cr.size, offset)
    IN  [cr EXCEPT
            !.pc = "loop",
            !.out = Append(@, [at |-> cr.buf, n |-> bytes, from |-> memcpy_src(offset),
                               fast |-> FALSE, src |-> held]),
            !.buf = @ + bytes,
            !.size = Sub(@, Bits(bytes, U64Bits)),
            !.abs_offset = Add(@, Bits(bytes, U64Bits))]

\* byte k of the caller's buffer: what the last write covering k left there;
\* -1 where nothing was written, -2 where memcpy read outside block_buffer
buf_byte(cr, k) ==
    LET ws == {i \in 1..Len(cr.out) : cr.out[i].at <= k /\ k < cr.out[i].at + cr.out[i].n}
    IN  IF ws = {} THEN -1
        ELSE LET w == cr.out[CHOOSE i \in ws : \A j \in ws : j <= i]
                 at == w.from + (k - w.at)
             IN  IF at < BLOCK_SIZE THEN block_bytes(w.src)[at + 1] ELSE -2

\* calls of get_block so far
n_generated(cr) == Len(cr.out) + (IF cr.pc = "copy" THEN 1 ELSE 0)

\* writes that ran past the end of the caller's buffer
Overruns(cr) == {i \in 1..Len(cr.out) : cr.out[i].at + cr.out[i].n > cr.req_size}

\* the locals at return orig_size
read_return(cr) == [cr EXCEPT !.pc = "returned", !.ret = to_int(cr.orig_size)]

RECURSIVE read_alone(_)
\* the loop and the return run to the end with no other call in between
read_alone(cr) ==
    IF cr.pc # "loop" THEN cr
    ELSE IF IsZero(cr.size) THEN read_return(cr)
    ELSE IF fast_path(offset_of(cr.abs_offset), cr.size) THEN read_alone(read_fast(cr))
    ELSE read_alone(read_copy(cr, [block |-> block_of(cr.abs_offset),
                                   seed  |-> cr.testfile.seed]))

\* how many writes past the caller's buffer a run follows before the thread
\* is taken to have faulted
MaxOverrun == 2

\* FUSE hands a read request to worker thread c
fop_read_call(c, path, size, abs_offset) ==
    /\ main_pc = "mounted"
    /\ call[c].pc = "idle"
    /\ call' = [call EXCEPT ![c] = read_enter(path, size, abs_offset)]
    /\ UNCHANGED <<small_block_test, byte_order, main_pc, testfile_list,
                   block_buffer, engine>>

\* while (size), fast branch: get_block writes the block into buf
fop_read_fast(c) ==
    /\ call[c].pc = "loop"
    /\ ~IsZero(call[c].size)
    /\ fast_path(offset_of(call[c].abs_offset), call[c].size)
    /\ Cardinality(Overruns(call[c])) < MaxOverrun
    /\ call' = [call EXCEPT ![c] = read_fast(call[c])]
    /\ UNCHANGED <<small_block_test, byte_order, main_pc, testfile_list,
                   block_buffer, engine>>

\* while (size), partial branch: get_block fills block_buffer
fop_read_generate(c) ==
    /\ call[c].pc = "loop"
    /\ ~IsZero(call[c].size)
    /\ ~fast_path(offset_of(call[c].abs_offset), call[c].size)
    /\ Cardinality(Overruns(call[c])) < MaxOverrun
    /\ block_buffer' = [block_buffer EXCEPT ![block_buffer_of(c)] =
                           [block |-> block_of(call[c].abs_offset),
                            seed  |-> call[c].testfile.seed]]
    /\ call' = [call EXCEPT ![c].pc = "copy"]
    /\ UNCHANGED <<small_block_test, byte_order, main_pc, testfile_list, engine>>

\* partial branch: memcpy from block_buffer and the three updates
fop_read_copy(c) ==
    /\ call[c].pc = "copy"
    /\ call' = [call EXCEPT ![c] = read_copy(call[c], block_buffer[block_buffer_of(c)])]
    /\ UNCHANGED <<small_block_test, byte_order, main_pc, testfile_list,
                   block_buffer, engine>>

\* size is zero: return orig_size
fop_read_return(c) ==
    /\ call[c].pc = "loop"
    /\ IsZero(call[c].size)
    /\ call' = [call EXCEPT ![c] = read_return(call[c])]
    /\ UNCHANGED <<small_block_test, byte_order, main_pc, testfile_list,
                   block_buffer, engine>>

\* a write past the end of buf is undefined: the run may go on with memory
\* beyond buf overwritten, or the thread may fault
fop_read_fault(c) ==
    /\ call[c].pc \in {"loop", "copy"}
    /\ Overruns(call[c]) # {}
    /\ call' = [call EXCEPT ![c].pc = "fault"]
    /\ UNCHANGED <<small_block_test, byte_order, main_pc, testfile_list,
                   block_buffer, engine>>

(***************************************************************************)
(* One activation of get_block, its call of crc taken one iteration at a   *)
(* time.                                                                   *)
(***************************************************************************)
IdleEngine ==
    [pc |-> "idle", block |-> Bits(0, U32Bits), file_seed |-> Bits(0, U32Bits),
     crc |-> crc_enter(Bits(0, U32Bits), Bits(0, U32Bits)), buf |-> <<>>]

\* get_block is entered and calls crc
get_block_call(block, file_seed) ==
    /\ engine.pc = "idle"
    /\ engine' = [engine EXCEPT !.pc = "crc", !.block = block, !.file_seed = file_seed,
                                !.crc = crc_enter(Bits(global_seed, U32Bits), file_seed)]
    /\ UNCHANGED <<small_block_test, byte_order, main_pc, testfile_list, call,
                   block_buffer>>

\* one iteration of crc's loop
crc_iterate ==
    /\ engine.pc = "crc"
    /\ engine.crc.i < crc_iterations
    /\ engine' = [engine EXCEPT !.crc = crc_step(engine.crc, engine.block)]
    /\ UNCHANGED <<small_block_test, byte_order, main_pc, testfile_list, call,
                   block_buffer>>

\* crc returns input; get_block's loop fills the buffer
get_block_expand ==
    /\ engine.pc = "crc"
    /\ engine.crc.i >= crc_iterations
    /\ engine' = [engine EXCEPT !.pc = "done",
                                !.buf = get_block_from(engine.crc.input, BLOCK_SIZE,
                                                       byte_order)]
    /\ UNCHANGED <<small_block_test, byte_order, main_pc, testfile_list, call,
                   block_buffer>>

(***************************************************************************)
(* Specifications.                                                         *)
(***************************************************************************)
MaxFiles == 2         \* file specifications main is given
MaxOffset == 41       \* read requests start at 0 .. MaxOffset
MaxLen == 20          \* and ask for 0 .. MaxLen bytes
MaxEngineBlock == 2   \* get_block is run alone for blocks 0 .. MaxEngineBlock
MaxEngineSeed == 2    \* and file seeds 1 .. MaxEngineSeed

Str(name) == <<name>>
\* what main leaves of "a,40,1/b,100,2"
SmallList ==
    <<[name |-> Str("b"), size |-> Bits(100, U64Bits), seed |-> Bits(2, U32Bits)],
      [name |-> Str("a"), size |-> Bits(40, U64Bits), seed |-> Bits(1, U32Bits)]>>
\* what main leaves of "a,1000000,1"
BigList ==
    <<[name |-> Str("a"), size |-> Bits(1000000, U64Bits), seed |-> Bits(1, U32Bits)]>>

Mounted(small, list) ==
    /\ small_block_test = small
    /\ byte_order \in ByteOrders
    /\ main_pc = "mounted"
    /\ testfile_list = list
    /\ call = [c \in Threads |-> IdleCall]
    /\ block_buffer = [b \in {0} \cup Threads |-> NoBlock]
    /\ engine = IdleEngine

\* the steps of a call in progress
ReadStep(c) ==
    \/ fop_read_fast(c)
    \/ fop_read_generate(c)
    \/ fop_read_copy(c)
    \/ fop_read_return(c)

\* a single-threaded mount (fuse_main with -s) of the SMALL_BLOCK_TEST build
Paths == {<<"/", "a">>, <<"/", "b">>, <<"/", "c">>}
Init == Mounted(TRUE, SmallList)
Next ==
    \/ \E path \in Paths, size \in 0..MaxLen, off \in 0..MaxOffset :
           fop_read_call(1, path, size, Bits(off, U64Bits))
    \/ ReadStep(1)
    \/ fop_read_fault(1)
Spec == Init /\ [][Next]_vars

\* a multi-threaded mount: two worker threads serve requests at once
ConcPaths == {<<"/", "a">>, <<"/", "b">>}
ConcOffsets == {0, 10}
ConcLens == {12, 20}
NextConc ==
    \E c \in Threads :
        \/ \E path \in ConcPaths, size \in ConcLens, off \in ConcOffsets :
               fop_read_call(c, path, size, Bits(off, U64Bits))
        \/ ReadStep(c)
SpecConc == Init /\ [][NextConc]_vars

\* the default build (64K blocks), single-threaded, one file of 1,000,000 bytes
BigOffsets == {0, 50, 65530, 65536, 131072, 999999, 1000000, 1000010}
BigLens == {0, 1, 12, 65536, 131072, 200000}
InitBig == Mounted(FALSE, BigList)
NextBig ==
    \/ \E size \in BigLens, off \in BigOffsets :
           fop_read_call(1, <<"/", "a">>, size, Bits(off, U64Bits))
    \/ ReadStep(1)
    \/ fop_read_fault(1)
SpecBig == InitBig /\ [][NextBig]_vars

\* main, in either build
Names == {Str("a"), Str("b")}
SizeValues == {0, 40, 262145}
SizeSuffixes == {"", "G"}
SeedValues == {0, 1, 2}
InitMain ==
    /\ small_block_test \in BOOLEAN
    /\ byte_order \in ByteOrders
    /\ main_pc = "parsing"
    /\ testfile_list = <<>>
    /\ call = [c \in Threads |-> IdleCall]
    /\ block_buffer = [b \in {0} \cup Threads |-> NoBlock]
    /\ engine = IdleEngine
NextMain ==
    \/ /\ Len(testfile_list) < MaxFiles
       /\ \E name \in Names, value \in SizeValues, suffix \in SizeSuffixes,
             seed \in SeedValues, trailing \in BOOLEAN :
              main_file(name, value, suffix, seed, trailing)
    \/ main_mount
SpecMain == InitMain /\ [][NextMain]_vars

\* get_block alone, in the SMALL_BLOCK_TEST build
EngineBlocks == {Bits(b, U32Bits) : b \in 0..MaxEngineBlock} \cup {Not(Bits(0, U32Bits))}
EngineSeeds == {Bits(s, U32Bits) : s \in 1..MaxEngineSeed}
NextEngine ==
    \/ \E block \in EngineBlocks, file_seed \in EngineSeeds :
           get_block_call(block, file_seed)
    \/ crc_iterate
    \/ get_block_expand
SpecEngine == Init /\ [][NextEngine]_vars

(***************************************************************************)
(* Claims.                                                                 *)
(***************************************************************************)
\* the call found its file
Found(cr) == cr.pc # "idle" /\ cr.testfile # NoFile
\* min(length, size - offset) for a request with offset <= size
Clamped(cr) ==
    LET rest == Sub(cr.testfile.size, cr.req_offset)
    IN  IF Lt(rest, Bits(cr.req_size, U64Bits)) THEN rest ELSE Bits(cr.req_size, U64Bits)
\* bytes written to buf so far
RECURSIVE WrittenFrom(_, _)
WrittenFrom(out, i) == IF i > Len(out) THEN 0 ELSE out[i].n + WrittenFrom(out, i + 1)
Written(cr) == WrittenFrom(cr.out, 1)
\* byte number (pos & (BLOCK_SIZE-1)) of get_block(pos >> BLOCK_SHIFT, seed)
GeneratedByte(seed, pos) ==
    block_bytes([block |-> Conv(Shr(pos, BLOCK_SHIFT), U32Bits), seed |-> seed])
        [Val(Conv(pos, BLOCK_SHIFT)) + 1]

\* C1: after fop_read returns for a request with offset <= size, output byte
\* k, for every k below min(length, size - offset), is byte (offset+k) &
\* (BLOCK_SIZE-1) of get_block((offset+k) >> BLOCK_SHIFT, seed), whatever
\* mix of fast and partial iterations served it.
C1_ReadGenerateConsistency ==
    \A c \in Threads :
        LET cr == call[c]
        IN  (Found(cr) /\ cr.pc = "returned" /\ Le(cr.req_offset, cr.testfile.size)) =>
                \A k \in 0..(Val(Clamped(cr)) - 1) :
                    buf_byte(cr, k) =
                        GeneratedByte(cr.testfile.seed, Add(cr.req_offset, Bits(k, U64Bits)))
\* a returned read that took the partial path, the fast path and the partial
\* path again
C1_Witness ==
    \E c \in Threads :
        /\ call[c].pc = "returned"
        /\ Len(call[c].out) = 3
        /\ ~call[c].out[1].fast /\ call[c].out[2].fast /\ ~call[c].out[3].fast
\* the read of [BLOCK_SIZE-6, BLOCK_SIZE+6), across the block boundary
C1_BoundaryRead ==
    \E c \in Threads :
        /\ call[c].pc = "returned"
        /\ call[c].req_offset = Bits(BLOCK_SIZE - 6, U64Bits)
        /\ call[c].req_size = 12
        /\ call[c].ret = 12

\* C2: for a fixed (file seed, block index), get_block writes the same
\* bytes on every machine, whatever the byte order in which the machine
\* stores the 32-bit words.
C2_SameBytesOnEveryMachine ==
    engine.pc = "done" =>
        \A order \in ByteOrders :
            engine.buf = get_block(engine.block, engine.file_seed, BLOCK_SIZE, order)

\* C3: a request with absolute_offset >= file.size returns 0 bytes,
\* generates no block and writes nothing to the caller's buffer.
C3_OutOfRangeClamped ==
    \A c \in Threads :
        LET cr == call[c]
        IN  (Found(cr) /\ Le(cr.testfile.size, cr.req_offset)) =>
                /\ cr.pc \in {"loop", "returned"}
                /\ cr.out = <<>>
                /\ cr.pc = "returned" => cr.ret = 0

\* a request with offset < size on an existing file
C4_InRange(c) == Found(call[c]) /\ Lt(call[c].req_offset, call[c].testfile.size)
\* what is written and what remains add up to min(length, size - offset),
\* every write has at least one byte and stays inside the caller's buffer,
\* and the call returns that count with nothing remaining
C4_Safe(c) ==
    LET cr == call[c]
    IN  /\ Le(Bits(Written(cr), U64Bits), Clamped(cr))
        /\ Add(Bits(Written(cr), U64Bits), cr.size) = Clamped(cr)
        /\ \A i \in 1..Len(cr.out) : cr.out[i].n >= 1
        /\ Overruns(cr) = {}
        /\ cr.pc \in {"loop", "copy", "returned"}
        /\ cr.pc = "returned" =>
               /\ IsZero(cr.size)
               /\ Bits(cr.ret, U64Bits) = Clamped(cr)
               /\ Written(cr) = cr.ret
\* a step from the locals old to the locals new lowers the pair (remaining
\* length, position in the loop body)
C4_Rank(pc) == IF pc = "loop" THEN 2 ELSE IF pc = "copy" THEN 1 ELSE 0
C4_Lower(old, new) ==
    \/ Lt(new.size, old.size)
    \/ new.size = old.size /\ C4_Rank(new.pc) < C4_Rank(old.pc)
\* C4: for a request with offset < size the loop terminates with the
\* remaining length exactly zero (every step of the call lowers
\* the remaining length or moves on in the loop body, the remaining length
\* never passes zero, and a call that has not returned is never stopped), and the returned count is min(length,
\* size - offset), the number of bytes written.
C4_NoShortReads ==
    /\ [](\A c \in Threads : C4_InRange(c) => C4_Safe(c))
    /\ [][\A c \in Threads :
              (C4_InRange(c) /\ call'[c] # call[c]) => C4_Lower(call[c], call'[c])]_vars
\* the read of the last byte of the 40-byte file, asked for more
C4_Witness ==
    \E c \in Threads :
        /\ call[c].pc = "returned"
        /\ call[c].testfile.size = Bits(40, U64Bits)
        /\ call[c].req_offset = Bits(39, U64Bits)
        /\ call[c].req_size > 1
        /\ call[c].ret = 1

\* C5: calls whose steps are interleaved each produce the output bytes and
\* the return value they produce when run alone.
C5_ConcurrentReadsIndependent ==
    \A c \in Threads :
        LET cr == call[c]
            alone == read_alone(read_enter(cr.path, cr.req_size, cr.req_offset))
        IN  cr.pc = "returned" =>
                /\ cr.ret = alone.ret
                /\ \A k \in 0..(cr.req_size - 1) : buf_byte(cr, k) = buf_byte(alone, k)
\* one call has returned its bytes while the other, started before that
\* return, is between get_block and memcpy on another block
C5_Witness ==
    /\ call[1].pc = "returned" /\ call[1].ret > 0
    /\ ~call[1].out[Len(call[1].out)].fast
    /\ call[2].pc = "copy" /\ call[2].out # <<>>
    /\ block_buffer[block_buffer_of(1)] # block_buffer[block_buffer_of(2)]

\* C6: a file of more than 2^32 blocks is rejected when it is registered.
C6_OversizeRejected ==
    \A i \in 1..Len(testfile_list) :
        Le(testfile_list[i].size, Shl(Bits(1, U64Bits), U32Bits + BLOCK_SHIFT))

\* C7: for every file seed s and block index i, get_block(i, s) and
\* get_block(i+1, s) differ in at least one byte.
C7_BlockIndexSensitivity ==
    engine.pc = "done" =>
        engine.buf # get_block(Add(engine.block, Bits(1, U32Bits)), engine.file_seed,
                               BLOCK_SIZE, byte_order)
\* get_block has run for the last block index, whose successor is block 0
C7_Witness == engine.pc = "done" /\ engine.block = Not(Bits(0, U32Bits))

\* C8: a call whose clamped length is L makes at most L / BLOCK_SIZE calls
\* of get_block before it returns.
C8_BoundedWork ==
    \A c \in Threads :
        LET cr == call[c]
        IN  (Found(cr) /\ cr.pc = "returned") =>
                Le(Bits(n_generated(cr), U64Bits), Shr(cr.orig_size, BLOCK_SHIFT))
\* C8 as amended: at most ceil(L / BLOCK_SIZE) + 1 calls of get_block.
C8_BoundedWorkAmended ==
    \A c \in Threads :
        LET cr == call[c]
            partial == IF IsZero(Conv(cr.orig_size, BLOCK_SHIFT)) THEN 0 ELSE 1
        IN  Found(cr) =>
                Le(Bits(n_generated(cr), U64Bits),
                   Add(Shr(cr.orig_size, BLOCK_SHIFT), Bits(partial + 1, U64Bits)))
\* a returned 18-byte read that made ceil(18/16) + 1 = 3 calls
C8_Witness ==
    \E c \in Threads :
        /\ call[c].pc = "returned"
        /\ call[c].orig_size = Bits(BLOCK_SIZE + 2, U64Bits)
        /\ n_generated(call[c]) = 3

\* C9: with BLOCK_SIZE = 65536 the read of [50, 50+200000) of a file of
\* 1,000,000 bytes takes the fast path at least 3 times and the partial
\* copy once.
C9_Scenario(cr) ==
    /\ Found(cr)
    /\ BLOCK_SIZE = 65536
    /\ cr.testfile.size = Bits(1000000, U64Bits)
    /\ cr.req_offset = Bits(50, U64Bits)
    /\ cr.req_size = 200000
C9_Paths(cr) == [i \in 1..Len(cr.out) |-> IF cr.out[i].fast THEN "fast" ELSE "partial"]
C9_PathSelection ==
    \A c \in Threads :
        (C9_Scenario(call[c]) /\ call[c].pc = "returned") =>
            /\ Cardinality({i \in 1..Len(call[c].out) : call[c].out[i].fast}) >= 3
            /\ Cardinality({i \in 1..Len(call[c].out) : ~call[c].out[i].fast}) = 1
\* C9 as amended: the read takes a leading partial copy, the fast path
\* twice and a trailing partial copy.
C9_PathSelectionAmended ==
    \A c \in Threads :
        C9_Scenario(call[c]) =>
            /\ \E n \in 0..4 :
                   C9_Paths(call[c]) = SubSeq(<<"partial", "fast", "fast", "partial">>, 1, n)
            /\ call[c].pc = "returned" =>
                   /\ Len(call[c].out) = 4
                   /\ call[c].ret = 200000
C9_Witness ==
    \E c \in Threads : C9_Scenario(call[c]) /\ call[c].pc = "returned"

\* C10: the dividend starts as global_seed with file_seed as the next
\* word, and the block index is loaded into the next-word register only in
\* an iteration i with 64 <= i < 96.
C10_Start ==
    engine.crc.i = 0 =>
        /\ engine.crc.input = Bits(global_seed, U32Bits)
        /\ engine.crc.input_next = engine.file_seed
C10_RefillInFinalThird ==
    engine.pc # "idle" =>
        /\ C10_Start
        /\ \A i \in engine.crc.refills : 64 <= i /\ i < 96
        /\ engine.pc = "done" => engine.crc.refills # {}
\* C10 as amended: the block index is loaded in iteration 32, the first of
\* the loop's middle third, and in no other.
C10_RefillAtMiddleThird ==
    engine.pc # "idle" =>
        /\ C10_Start
        /\ engine.crc.refills = IF engine.crc.i > 32 THEN {32} ELSE {}
C10_Witness == engine.pc = "done" /\ engine.crc.i = 96 /\ engine.crc.refills = {32}

====
